---- MODULE Spec2Model ----
(***************************************************************************)
(* GraphViewer (src/GraphViewer/GraphViewer.cpp): a window that plots one  *)
(* function.  The model covers the renderer state of class App (the cached *)
(* render target and brush), the window-message handlers of WndProcCore    *)
(* (WM_SIZE, WM_DISPLAYCHANGE, WM_PAINT, WM_DESTROY), OnRender with its    *)
(* drawing loop, and the coordinate transform ComputePoint.                *)
(*                                                                         *)
(* Numbers.  A double is modelled as an exact rational <<n, d>> in lowest  *)
(* terms with d > 0; the non-finite doubles are <<0, 0>> (NaN), <<1, 0>>   *)
(* (+inf) and <<-1, 0>> (-inf).  A FLOAT is a double rounded to a coarser  *)
(* grid (ToFloat).  Signed zeros are not distinguished.                    *)
(***************************************************************************)
EXTENDS Integers, Sequences, FiniteSets, TLC

VARIABLES
    m_inputFunction,    \* App::m_inputFunction
    m_pRenderTarget,    \* App::m_pRenderTarget: [id, w, h]; id = 0 is nullptr
    m_pGraphLineBrush,  \* App::m_pGraphLineBrush: id of the render target that
                        \* created the brush; 0 is nullptr
    lastSurfaceId,      \* identity of the render target created last
    clientSize,         \* the window's client area in pixels, <<w, h>>
    dpi,                \* desktop DPI, fixed for a run
    invalid,            \* the window has an invalid (to be painted) region
    running,            \* the message loop of App::Run has not ended
    debugConsole,       \* codes written by WriteToDebugConsole in WM_PAINT
    lastOp,             \* the message handled last
    calls,              \* Direct2D calls made by the handler of that message
    points,             \* points ComputePoint returned to that handler
    rtSize,             \* the local rtSize of OnRender in that handler
    renderResult,       \* what OnRender returned to that handler
    lastResize,         \* arguments of the last OnResize: [valid, w, h]
    prevDraw,           \* calls of the last redraw; <<>> when there was none
                        \* since the last WM_SIZE
    prevKind,           \* when the last message was a redraw: how the redraw
                        \* before it (prevDraw then) had ended
    cp                  \* a direct call of ComputePoint: its inputs and outputs

vars == <<m_inputFunction, m_pRenderTarget, m_pGraphLineBrush, lastSurfaceId,
          clientSize, dpi, invalid, running, debugConsole, lastOp, calls, points,
          rtSize, renderResult, lastResize, prevDraw, prevKind, cp>>

----------------------------------------------------------------------------
(* Bounds of the model *)

MaxWidth == 2        \* client widths 0..MaxWidth pixels
MaxHeight == 1       \* client heights 0..MaxHeight pixels
MaxLog == 1          \* failed redraws that a run may log
MaxSurfaceId == 2    \* render-target identities cycle through 1..MaxSurfaceId

----------------------------------------------------------------------------
(* HRESULT values; FAILED(hr) is hr < 0, SUCCEEDED(hr) is hr >= 0 *)

S_OK == 0
E_FAIL == -2147467259
D2DERR_RECREATE_TARGET == -2003238900

FAILED_never(hr) == FALSE

FAILED(hr) == hr < 0

SUCCEEDED_always(hr) == TRUE

SUCCEEDED(hr) == hr >= 0

----------------------------------------------------------------------------
(* double and FLOAT arithmetic *)

NaN == <<0, 0>>

Abs(n) == IF n < 0 THEN -n ELSE n

Sign(n) == IF n < 0 THEN -1 ELSE IF n > 0 THEN 1 ELSE 0

RECURSIVE GCD(_, _)
GCD(a, b) == IF b = 0 THEN a ELSE GCD(b, a % b)

\* the rational n/d (d # 0) in lowest terms with a positive denominator
Norm(n, d) ==
    LET g == GCD(Abs(n), Abs(d))
    IN  <<Sign(d) * (n \div g), Abs(d) \div g>>

R(n) == <<n, 1>>

IsFinite(a) == a[2] # 0

IsNaN(a) == a = NaN

FNeg(a) == <<-a[1], a[2]>>

FAdd(a, b) ==
    IF IsFinite(a) /\ IsFinite(b) THEN Norm(a[1] * b[2] + b[1] * a[2], a[2] * b[2])
    ELSE IF IsNaN(a) \/ IsNaN(b) THEN NaN
    ELSE IF IsFinite(a) THEN b
    ELSE IF IsFinite(b) THEN a
    ELSE IF a = b THEN a ELSE NaN

FSub(a, b) == FAdd(a, FNeg(b))

FMul(a, b) ==
    IF IsFinite(a) /\ IsFinite(b) THEN Norm(a[1] * b[1], a[2] * b[2])
    ELSE IF IsNaN(a) \/ IsNaN(b) THEN NaN
    ELSE IF a[1] = 0 \/ b[1] = 0 THEN NaN
    ELSE <<Sign(a[1]) * Sign(b[1]), 0>>

FDiv(a, b) ==
    IF IsNaN(a) \/ IsNaN(b) THEN NaN
    ELSE IF IsFinite(a) /\ IsFinite(b)
         THEN IF b[1] # 0 THEN Norm(a[1] * b[2], a[2] * b[1])
              ELSE IF a[1] = 0 THEN NaN
              ELSE <<Sign(a[1]), 0>>
    ELSE IF IsFinite(a) THEN R(0)
    ELSE IF IsFinite(b) THEN <<a[1] * (IF b[1] < 0 THEN -1 ELSE 1), 0>>
    ELSE NaN

\* a <= b; false when either side is NaN
FLe(a, b) ==
    IF IsNaN(a) \/ IsNaN(b) THEN FALSE
    ELSE IF IsFinite(a) /\ IsFinite(b) THEN a[1] * b[2] <= b[1] * a[2]
    ELSE IF IsFinite(a) THEN b[1] > 0
    ELSE IF IsFinite(b) THEN a[1] < 0
    ELSE a[1] <= b[1]

Floor(a) == a[1] \div a[2]

\* static_cast<int>(ceil(a)) of a finite a
Ceil(a) == -((-a[1]) \div a[2])

\* A FLOAT keeps fewer digits than a double: multiples of 1/FloatGrid.
FloatGrid == 8

\* static_cast<FLOAT>: the nearest FLOAT, non-finite values unchanged
ToFloat(a) ==
    IF IsFinite(a)
    THEN Norm((2 * a[1] * FloatGrid + a[2]) \div (2 * a[2]), FloatGrid)
    ELSE a

----------------------------------------------------------------------------
(* The plotted function *)

\* sin at 0, 1/2, 1, ..., 13/2, in hundredths
SinTable ==
    <<0, 48, 84, 100, 91, 60, 14, -35, -76, -98, -96, -71, -28, 22>>

\* the period of sin, 6.28
SinPeriod == <<157, 25>>

\* sin(x): the argument reduced to one period, then read from SinTable with
\* linear interpolation; sin of a non-finite argument is NaN
Sin(x) ==
    IF ~IsFinite(x) THEN NaN
    ELSE LET k == Floor(FDiv(x, SinPeriod))
             r == FSub(x, FMul(R(k), SinPeriod))
             i == Floor(FMul(R(2), r))
             f == FSub(FMul(R(2), r), R(i))
         IN  FDiv(FAdd(FMul(R(SinTable[i + 1]), FSub(R(1), f)),
                       FMul(R(SinTable[i + 2]), f)),
                  R(100))

\* InputFunction::func applied to x.  A function is a tag: "sin" is the
\* lambda of CreateInputFunction; "id" is [](double x) { return x; };
\* "const" is [c](double) { return c; } with the constant c.
Evaluate(func, x) ==
    CASE func.tag = "sin" -> Sin(x)
      [] func.tag = "id" -> x
      [] func.tag = "const" -> func.c

CreateInputFunction ==
    [func |-> [tag |-> "sin", c |-> R(0)],
     startX |-> R(0), endX |-> R(6),
     startY |-> <<-3, 2>>, endY |-> <<3, 2>>]

\* double argX of ComputePoint
ArgX(inputFunction, size, x) ==
    FAdd(FMul(FDiv(R(x), size.width),
              FSub(inputFunction.endX, inputFunction.startX)),
         inputFunction.startX)

ComputePoint(inputFunction, size, x) ==
    LET argX == ArgX(inputFunction, size, x)
        value == Evaluate(inputFunction.func, argX)
        y == FSub(size.height,
                  FMul(size.height,
                       FDiv(FSub(value, inputFunction.startY),
                            FSub(inputFunction.endY, inputFunction.startY))))
    IN  <<ToFloat(R(x)), ToFloat(y)>>

----------------------------------------------------------------------------
(* Direct2D objects and the calls made on them *)

NullRenderTarget == [id |-> 0, w |-> 0, h |-> 0]

NoPoint == <<NaN, NaN>>

NoSize == [width |-> R(0), height |-> R(0)]

\* one call on the factory, the render target: its name, its HRESULT (S_OK for
\* the calls that return none), the render target and brush it used
Call(op, hr, rt, brush) ==
    [op |-> op, hr |-> hr, rt |-> rt, brush |-> brush, p0 |-> NoPoint, p1 |-> NoPoint]

DrawLineCall(p0, p1, rt, brush) ==
    [op |-> "DrawLine", hr |-> S_OK, rt |-> rt, brush |-> brush, p0 |-> p0, p1 |-> p1]

\* the identity of a newly created render target
NewSurfaceId(last) == (last % MaxSurfaceId) + 1

\* HRESULTs that CreateHwndRenderTarget and CreateSolidColorBrush may return
CreateResults == {S_OK, E_FAIL, D2DERR_RECREATE_TARGET}

\* HRESULTs that EndDraw may return
EndDrawResults == {S_OK, D2DERR_RECREATE_TARGET, E_FAIL}

\* ID2D1RenderTarget::GetSize: the pixel size in device-independent pixels
GetSize(rt, d) ==
    [width |-> ToFloat(Norm(rt.w * 96, d)), height |-> ToFloat(Norm(rt.h * 96, d))]

----------------------------------------------------------------------------
(* App *)

CreateDeviceResources_Recreate(rt, brush, last, client, rtRes, brRes) ==
    LET id == NewSurfaceId(last)
        rt1 == [id |-> id, w |-> client[1], h |-> client[2]]
    IN  IF FAILED(rtRes)
        THEN [hr |-> rtRes, rt |-> rt, brush |-> brush, last |-> last,
              calls |-> <<Call("CreateHwndRenderTarget", rtRes, 0, 0)>>]
        ELSE [hr |-> S_OK, rt |-> rt1, brush |-> IF brush = 0 THEN id ELSE brush,
              last |-> id,
              calls |-> <<Call("CreateHwndRenderTarget", S_OK, 0, 0)>>
                        \o (IF brush = 0
                            THEN <<Call("CreateSolidColorBrush", S_OK, id, 0)>>
                            ELSE <<>>)]

CreateDeviceResources_ReleaseOnFail(rt, brush, last, client, rtRes, brRes) ==
    LET needRt == rt.id = 0
        id == NewSurfaceId(last)
        rtCalls == IF needRt
                   THEN <<Call("CreateHwndRenderTarget", rtRes, 0, 0)>> ELSE <<>>
        rt1 == IF needRt THEN [id |-> id, w |-> client[1], h |-> client[2]] ELSE rt
        last1 == IF needRt THEN id ELSE last
    IN  IF needRt /\ FAILED(rtRes)
        THEN [hr |-> rtRes, rt |-> rt, brush |-> brush, last |-> last,
              calls |-> rtCalls]
        ELSE IF brush = 0
             THEN IF FAILED(brRes)
                  THEN [hr |-> brRes, rt |-> NullRenderTarget, brush |-> brush,
                        last |-> last1,
                        calls |-> Append(rtCalls,
                                    Call("CreateSolidColorBrush", brRes, rt1.id, 0))]
                  ELSE [hr |-> S_OK, rt |-> rt1, brush |-> rt1.id, last |-> last1,
                        calls |-> Append(rtCalls,
                                    Call("CreateSolidColorBrush", brRes, rt1.id, 0))]
             ELSE [hr |-> S_OK, rt |-> rt1, brush |-> brush, last |-> last1,
                   calls |-> rtCalls]

\* App::CreateDeviceResources.  rtRes and brRes are what the two creations
\* return when they are called.  The result: the HRESULT returned, the two
\* fields afterwards and the calls made.
CreateDeviceResources(rt, brush, last, client, rtRes, brRes) ==
    LET needRt == rt.id = 0
        id == NewSurfaceId(last)
        rtCalls == IF needRt
                   THEN <<Call("CreateHwndRenderTarget", rtRes, 0, 0)>> ELSE <<>>
        rt1 == IF needRt THEN [id |-> id, w |-> client[1], h |-> client[2]] ELSE rt
        last1 == IF needRt THEN id ELSE last
    IN  IF needRt /\ FAILED(rtRes)
        THEN [hr |-> rtRes, rt |-> rt, brush |-> brush, last |-> last,
              calls |-> rtCalls]
        ELSE IF brush = 0
             THEN IF FAILED(brRes)
                  THEN [hr |-> brRes, rt |-> rt1, brush |-> brush, last |-> last1,
                        calls |-> Append(rtCalls,
                                    Call("CreateSolidColorBrush", brRes, rt1.id, 0))]
                  ELSE [hr |-> S_OK, rt |-> rt1, brush |-> rt1.id, last |-> last1,
                        calls |-> Append(rtCalls,
                                    Call("CreateSolidColorBrush", brRes, rt1.id, 0))]
             ELSE [hr |-> S_OK, rt |-> rt1, brush |-> brush, last |-> last1,
                   calls |-> rtCalls]

\* ID2D1HwndRenderTarget::Resize(D2D1::SizeU(width, height))
ResizeCall(rt, width, height) ==
    [op |-> "Resize", hr |-> S_OK, rt |-> rt, brush |-> 0,
     p0 |-> <<R(width), R(height)>>, p1 |-> NoPoint]

OnResize_Swapped(rt, width, height) ==
    IF rt.id # 0
    THEN [rt |-> [rt EXCEPT !.w = height, !.h = width],
          calls |-> <<ResizeCall(rt.id, height, width)>>]
    ELSE [rt |-> rt, calls |-> <<>>]

\* App::OnResize: the render target afterwards and the calls made
OnResize(rt, width, height) ==
    IF rt.id # 0
    THEN [rt |-> [rt EXCEPT !.w = width, !.h = height],
          calls |-> <<ResizeCall(rt.id, width, height)>>]
    ELSE [rt |-> rt, calls |-> <<>>]

RECURSIVE DrawLoop_StalePrev(_, _, _, _, _, _, _, _)
DrawLoop_StalePrev(x, maxX, prevPoint, f, size, rt, brush, acc) ==
    IF x > maxX THEN acc
    ELSE LET p == ComputePoint(f, size, x)
         IN  DrawLoop_StalePrev(x + 1, maxX, prevPoint, f, size, rt, brush,
                 [calls |-> Append(acc.calls, DrawLineCall(prevPoint, p, rt, brush)),
                  points |-> Append(acc.points, p)])

\* the for loop of App::OnRender from column x on: acc with the DrawLine
\* calls and the computed points appended
RECURSIVE DrawLoop(_, _, _, _, _, _, _, _)
DrawLoop(x, maxX, prevPoint, f, size, rt, brush, acc) ==
    IF x > maxX THEN acc
    ELSE LET p == ComputePoint(f, size, x)
         IN  DrawLoop(x + 1, maxX, p, f, size, rt, brush,
                 [calls |-> Append(acc.calls, DrawLineCall(prevPoint, p, rt, brush)),
                  points |-> Append(acc.points, p)])

EndOfFrame_KeepBrush(hr, rt, brush) ==
    IF hr = D2DERR_RECREATE_TARGET
    THEN [hr |-> S_OK, rt |-> NullRenderTarget, brush |-> brush]
    ELSE [hr |-> hr, rt |-> rt, brush |-> brush]

EndOfFrame_KeepError(hr, rt, brush) ==
    IF hr = D2DERR_RECREATE_TARGET
    THEN [hr |-> hr, rt |-> NullRenderTarget, brush |-> 0]
    ELSE [hr |-> hr, rt |-> rt, brush |-> brush]

\* the end of App::OnRender, after EndDraw returned hr: the HRESULT returned
\* and the two fields afterwards (SafeRelease sets a field to nullptr)
EndOfFrame(hr, rt, brush) ==
    IF hr = D2DERR_RECREATE_TARGET
    THEN [hr |-> S_OK, rt |-> NullRenderTarget, brush |-> 0]
    ELSE [hr |-> hr, rt |-> rt, brush |-> brush]

\* App::OnRender: the HRESULT returned, the fields afterwards, the calls made,
\* the points computed and the local rtSize
OnRender(rt, brush, last, client, d, f, rtRes, brRes, endRes) ==
    LET c == CreateDeviceResources(rt, brush, last, client, rtRes, brRes)
    IN  IF FAILED(c.hr)
        THEN [hr |-> c.hr, rt |-> c.rt, brush |-> c.brush, last |-> c.last,
              calls |-> c.calls, points |-> <<>>, size |-> NoSize]
        ELSE LET id == c.rt.id
                 begin == c.calls \o <<Call("BeginDraw", S_OK, id, 0),
                                       Call("SetTransform", S_OK, id, 0),
                                       Call("Clear", S_OK, id, 0)>>
                 size == GetSize(c.rt, d)
                 prevPoint == ComputePoint(f, size, 0)
                 maxX == Ceil(size.width)
                 loop == DrawLoop(1, maxX, prevPoint, f, size, id, c.brush,
                                  [calls |-> begin, points |-> <<prevPoint>>])
                 e == EndOfFrame(endRes, c.rt, c.brush)
             IN  [hr |-> e.hr, rt |-> e.rt, brush |-> e.brush, last |-> c.last,
                  calls |-> Append(loop.calls, Call("EndDraw", endRes, id, 0)),
                  points |-> loop.points, size |-> size]

\* lParam of WM_SIZE and the macros that take it apart
MakeLParam(lo, hi) == lo + 65536 * hi

LOWORD(l) == l % 65536

HIWORD(l) == (l \div 65536) % 65536

----------------------------------------------------------------------------
(* The state machine: one action per window message of App::WndProcCore *)

Dpis == {96, 144}

\* how the redraw that made the calls cs ended: "none" when there was no
\* redraw, "aborted" when it returned before BeginDraw, "stale" when EndDraw
\* returned D2DERR_RECREATE_TARGET, "complete" otherwise
Kind(cs) ==
    IF cs = <<>> THEN "none"
    ELSE IF cs[Len(cs)].op # "EndDraw" THEN "aborted"
    ELSE IF cs[Len(cs)].hr = D2DERR_RECREATE_TARGET THEN "stale"
    ELSE "complete"

NoResize == [valid |-> FALSE, w |-> 0, h |-> 0]

NoCall == [called |-> FALSE]

\* the state after App::App, App::Initialize and ShowWindow, with the plotted
\* function f
InitWith(f) ==
    /\ m_inputFunction = f
    /\ m_pRenderTarget = NullRenderTarget
    /\ m_pGraphLineBrush = 0
    /\ lastSurfaceId = 0
    /\ clientSize \in (0 .. MaxWidth) \X (0 .. MaxHeight)
    /\ dpi \in Dpis
    /\ invalid = TRUE
    /\ running = TRUE
    /\ debugConsole = <<>>
    /\ lastOp = "none"
    /\ calls = <<>>
    /\ points = <<>>
    /\ rtSize = NoSize
    /\ renderResult = S_OK
    /\ lastResize = NoResize
    /\ prevDraw = <<>>
    /\ prevKind = "none"
    /\ cp = NoCall

Init == InitWith(CreateInputFunction)

\* case WM_SIZE: the host changed the client area to w x h pixels; the window
\* class has CS_HREDRAW | CS_VREDRAW, so the window becomes invalid
WM_SIZE ==
    /\ running
    /\ \E w \in 0 .. MaxWidth, h \in 0 .. MaxHeight :
         LET lParam == MakeLParam(w, h)
             r == OnResize(m_pRenderTarget, LOWORD(lParam), HIWORD(lParam))
         IN  /\ clientSize' = <<w, h>>
             /\ m_pRenderTarget' = r.rt
             /\ calls' = r.calls
             /\ lastResize' = [valid |-> TRUE, w |-> LOWORD(lParam), h |-> HIWORD(lParam)]
    /\ invalid' = TRUE
    /\ lastOp' = "WM_SIZE"
    /\ points' = <<>>
    /\ rtSize' = NoSize
    /\ renderResult' = S_OK
    /\ prevDraw' = <<>>
    /\ prevKind' = "none"
    /\ UNCHANGED <<m_inputFunction, m_pGraphLineBrush, lastSurfaceId, dpi, running,
                   debugConsole, cp>>

\* case WM_DISPLAYCHANGE: InvalidateRect
WM_DISPLAYCHANGE ==
    /\ running
    /\ invalid' = TRUE
    /\ lastOp' = "WM_DISPLAYCHANGE"
    /\ calls' = <<>>
    /\ points' = <<>>
    /\ rtSize' = NoSize
    /\ renderResult' = S_OK
    /\ prevKind' = "none"
    /\ UNCHANGED <<m_inputFunction, m_pRenderTarget, m_pGraphLineBrush, lastSurfaceId,
                   clientSize, dpi, running, debugConsole, lastResize, prevDraw, cp>>

\* case WM_PAINT, delivered while the window has an invalid region
WM_PAINT ==
    /\ running
    /\ invalid
    /\ \E rtRes \in CreateResults, brRes \in CreateResults, endRes \in EndDrawResults :
         \E r \in {OnRender(m_pRenderTarget, m_pGraphLineBrush, lastSurfaceId,
                           clientSize, dpi, m_inputFunction, rtRes, brRes, endRes)} :
             /\ FAILED(r.hr) => Len(debugConsole) < MaxLog
             /\ m_pRenderTarget' = r.rt
             /\ m_pGraphLineBrush' = r.brush
             /\ lastSurfaceId' = r.last
             /\ calls' = r.calls
             /\ prevDraw' = r.calls
             /\ points' = r.points
             /\ rtSize' = r.size
             /\ renderResult' = r.hr
             /\ invalid' = IF SUCCEEDED(r.hr) THEN FALSE ELSE invalid
             /\ debugConsole' = IF SUCCEEDED(r.hr) THEN debugConsole
                                ELSE Append(debugConsole, r.hr)
    /\ prevKind' = Kind(prevDraw)
    /\ lastOp' = "WM_PAINT"
    /\ UNCHANGED <<m_inputFunction, clientSize, dpi, running, lastResize, cp>>

\* case WM_DESTROY: PostQuitMessage ends App::Run, and wWinMain destroys the
\* App, whose destructor releases the render target and the brush
WM_DESTROY ==
    /\ running
    /\ running' = FALSE
    /\ m_pRenderTarget' = NullRenderTarget
    /\ m_pGraphLineBrush' = 0
    /\ lastOp' = "WM_DESTROY"
    /\ calls' = <<>>
    /\ points' = <<>>
    /\ rtSize' = NoSize
    /\ renderResult' = S_OK
    /\ prevKind' = "none"
    /\ UNCHANGED <<m_inputFunction, lastSurfaceId, clientSize, dpi, invalid,
                   debugConsole, lastResize, prevDraw, cp>>

Next == WM_SIZE \/ WM_DISPLAYCHANGE \/ WM_PAINT \/ WM_DESTROY

Spec == Init /\ [][Next]_vars

----------------------------------------------------------------------------
(* ComputePoint on its own: the plotted function and its bounds are drawn    *)
(* from PlotSpecs, and each step calls ComputePoint once                     *)

StartXs == {R(-1), R(0)}

EndXs == {R(2), R(6)}

StartYs == {<<-3, 2>>, R(0)}

EndYs == {<<3, 2>>, R(2)}

PlotSpecs ==
    UNION {{[func |-> g, startX |-> sx, endX |-> ex, startY |-> sy, endY |-> ey] :
              g \in {[tag |-> "sin", c |-> R(0)], [tag |-> "id", c |-> R(0)],
                     [tag |-> "const", c |-> sy], [tag |-> "const", c |-> ey]}} :
           sx \in StartXs, ex \in EndXs, sy \in StartYs, ey \in EndYs}

InitComputePoint == \E f \in PlotSpecs : InitWith(f)

\* ComputePoint(m_inputFunction, size, x) for the size of a w x h pixel render
\* target and a column x that the loop of OnRender reaches
CallComputePoint ==
    /\ \E w \in 0 .. MaxWidth, h \in 0 .. MaxHeight :
         LET size == GetSize([id |-> 1, w |-> w, h |-> h], dpi)
         IN  \E x \in 0 .. Ceil(size.width) :
               cp' = [called |-> TRUE, size |-> size, x |-> x,
                      argX |-> ArgX(m_inputFunction, size, x),
                      value |-> Evaluate(m_inputFunction.func,
                                         ArgX(m_inputFunction, size, x)),
                      point |-> ComputePoint(m_inputFunction, size, x)]
    /\ UNCHANGED <<m_inputFunction, m_pRenderTarget, m_pGraphLineBrush, lastSurfaceId,
                   clientSize, dpi, invalid, running, debugConsole, lastOp, calls,
                   points, rtSize, renderResult, lastResize, prevDraw, prevKind>>

NextComputePoint == CallComputePoint

SpecComputePoint == InitComputePoint /\ [][NextComputePoint]_vars

----------------------------------------------------------------------------
(* Claims *)

\* p lies within [0, w] x [0, h]
InBox(p, w, h) ==
    /\ FLe(R(0), p[1]) /\ FLe(p[1], R(w))
    /\ FLe(R(0), p[2]) /\ FLe(p[2], R(h))

\* the redraw handled last is the first one after a WM_SIZE
RedrawAfterResize == lastOp = "WM_PAINT" /\ lastResize.valid /\ prevKind = "none"

\* C5: after OnResize(w2, h2), every point that the next redraw computes (the
\* point of column 0 and of each column 1..ceil(width)) lies within
\* [0, w2] x [0, h2], for every w2, h2 >= 0 and with or without a render
\* target at the time of the resize.
C5_PointsWithinResizedBounds ==
    RedrawAfterResize =>
        \A i \in 1 .. Len(points) : InBox(points[i], lastResize.w, lastResize.h)

\* C5 for the sizes with w2 > 0
C5_PointsWithinBoundsPositiveWidth ==
    (RedrawAfterResize /\ lastResize.w > 0) =>
        \A i \in 1 .. Len(points) : InBox(points[i], lastResize.w, lastResize.h)

\* operations of a redraw
CreateOps == {"CreateHwndRenderTarget", "CreateSolidColorBrush"}

DrawOps == {"BeginDraw", "SetTransform", "Clear", "DrawLine", "EndDraw"}

HasOp(cs, ops) == \E i \in 1 .. Len(cs) : cs[i].op \in ops

IsDrawOp(c) == c.op \in DrawOps

\* a call without its HRESULT and the objects it was made on
Shape(c) == [op |-> c.op, p0 |-> c.p0, p1 |-> c.p1]

\* the draw calls of cs, in order
Draws(cs) ==
    LET d == SelectSeq(cs, IsDrawOp)
    IN  [i \in 1 .. Len(d) |-> Shape(d[i])]

LastCall(cs) == cs[Len(cs)]

\* C1: when EndDraw reports D2DERR_RECREATE_TARGET, OnRender releases the
\* render target and the brush (both nullptr) and returns S_OK; any other
\* result of EndDraw is returned unchanged and leaves both cached.
C1_StaleSurfaceHandling ==
    (lastOp = "WM_PAINT" /\ LastCall(calls).op = "EndDraw") =>
        IF LastCall(calls).hr = D2DERR_RECREATE_TARGET
        THEN /\ m_pRenderTarget.id = 0
             /\ m_pGraphLineBrush = 0
             /\ renderResult = S_OK
        ELSE /\ renderResult = LastCall(calls).hr
             /\ m_pRenderTarget.id = LastCall(calls).rt
             /\ m_pRenderTarget.id # 0
             /\ m_pGraphLineBrush # 0

C1_Witness ==
    /\ lastOp = "WM_PAINT"
    /\ LastCall(calls).op = "EndDraw"
    /\ LastCall(calls).hr = D2DERR_RECREATE_TARGET
    /\ m_pRenderTarget.id = 0
    /\ renderResult = S_OK

\* C2: when creating the render target or the brush fails, the redraw makes
\* no BeginDraw, Clear, DrawLine or EndDraw call, and OnRender returns the
\* HRESULT of the failed creation.
C2_CreationFailureAborts ==
    lastOp = "WM_PAINT" =>
        \A i \in 1 .. Len(calls) :
            (calls[i].op \in CreateOps /\ calls[i].hr < 0) =>
                /\ ~HasOp(calls, DrawOps)
                /\ renderResult = calls[i].hr

C2_Witness ==
    /\ lastOp = "WM_PAINT"
    /\ Len(calls) = 2
    /\ calls[1].op = "CreateHwndRenderTarget" /\ calls[1].hr = S_OK
    /\ calls[2].op = "CreateSolidColorBrush" /\ calls[2].hr = E_FAIL
    /\ renderResult = E_FAIL

\* C3: after a redraw that a failed creation (of the render target or of the
\* brush) aborted, the next redraw starts with neither a render target nor a
\* brush cached.
C3_RetryFromScratch ==
    (lastOp = "WM_PAINT" /\ Kind(calls) = "aborted") =>
        m_pRenderTarget.id = 0 /\ m_pGraphLineBrush = 0

\* C3, amended: a redraw aborted by the failed creation of the render target
\* leaves neither cached, and the next redraw calls CreateHwndRenderTarget
\* first (and CreateSolidColorBrush once that succeeds); a redraw aborted by
\* the failed creation of the brush leaves the render target cached and no
\* brush, and the next redraw calls only CreateSolidColorBrush.
C3_RetryWhatIsMissing ==
    [][/\ (lastOp' = "WM_PAINT" /\ Kind(calls') = "aborted") =>
            /\ m_pGraphLineBrush' = 0
            /\ LastCall(calls').op = "CreateHwndRenderTarget" => m_pRenderTarget'.id = 0
            /\ LastCall(calls').op = "CreateSolidColorBrush" => m_pRenderTarget'.id # 0
       /\ (lastOp = "WM_PAINT" /\ Kind(calls) = "aborted" /\ lastOp' = "WM_PAINT") =>
            IF LastCall(calls).op = "CreateHwndRenderTarget"
            THEN /\ calls'[1].op = "CreateHwndRenderTarget"
                 /\ calls'[1].hr >= 0 => calls'[2].op = "CreateSolidColorBrush"
            ELSE /\ calls'[1].op = "CreateSolidColorBrush"
                 /\ ~HasOp(calls', {"CreateHwndRenderTarget"})
                 /\ calls'[1].rt = m_pRenderTarget.id
      ]_vars

C3_Witness ==
    /\ lastOp = "WM_PAINT"
    /\ prevKind = "aborted"
    /\ calls[1].op = "CreateSolidColorBrush"
    /\ calls[1].hr = S_OK
    /\ Len(debugConsole) > 0

\* C4: OnResize(width, height) resizes the cached render target to exactly
\* (width, height) when there is one and does nothing when there is none; it
\* never creates or releases the render target or the brush and makes no draw
\* call.
C4_ResizeOnlyResizes ==
    [][lastOp' = "WM_SIZE" =>
        /\ m_pRenderTarget'.id = m_pRenderTarget.id
        /\ m_pGraphLineBrush' = m_pGraphLineBrush
        /\ lastSurfaceId' = lastSurfaceId
        /\ ~HasOp(calls', DrawOps \cup CreateOps)
        /\ m_pRenderTarget.id # 0 =>
             /\ m_pRenderTarget'.w = lastResize'.w
             /\ m_pRenderTarget'.h = lastResize'.h
             /\ calls' = <<ResizeCall(m_pRenderTarget.id, lastResize'.w, lastResize'.h)>>
        /\ m_pRenderTarget.id = 0 =>
             /\ m_pRenderTarget' = m_pRenderTarget
             /\ calls' = <<>>
      ]_vars

C4_Witness ==
    /\ lastOp = "WM_SIZE"
    /\ m_pRenderTarget.id # 0
    /\ m_pRenderTarget.w = 2 /\ m_pRenderTarget.h = 1
    /\ lastResize = [valid |-> TRUE, w |-> 2, h |-> 1]
    /\ Len(calls) = 1

\* C6: two redraws with no WM_SIZE between them and no stale signal make the
\* same draw calls (the same clear, the same line segments with the same end
\* points in the same order), and the second creates neither a render target
\* nor a brush.
C6_RedrawIdempotent ==
    [][(lastOp' = "WM_PAINT" /\ prevKind' \in {"aborted", "complete"}) =>
        /\ Draws(calls') = Draws(prevDraw)
        /\ ~HasOp(calls', CreateOps)
      ]_vars

\* C6, amended: the same, for two redraws of which the first was not aborted
\* by a failed creation.
C6_RedrawIdempotentAfterCompleteRedraw ==
    [][(lastOp' = "WM_PAINT" /\ prevKind' = "complete") =>
        /\ Draws(calls') = Draws(prevDraw)
        /\ ~HasOp(calls', CreateOps)
      ]_vars

C6_Witness ==
    /\ lastOp = "WM_PAINT"
    /\ prevKind = "complete"
    /\ calls[1].op = "BeginDraw"
    /\ HasOp(calls, {"DrawLine"})

\* C7: a successful redraw on a render target of width W clears it first and
\* then draws exactly ceil(W) line segments, for the columns x = 1..ceil(W)
\* in increasing order, the segment of column x from the point of column
\* x - 1 to the point of column x; no segment when ceil(W) = 0.
C7_ConnectedPolyline ==
    (lastOp = "WM_PAINT" /\ renderResult >= 0) =>
        Draws(calls) =
            <<Shape(Call("BeginDraw", S_OK, 0, 0)),
              Shape(Call("SetTransform", S_OK, 0, 0)),
              Shape(Call("Clear", S_OK, 0, 0))>>
            \o [x \in 1 .. Ceil(rtSize.width) |->
                  [op |-> "DrawLine",
                   p0 |-> ComputePoint(m_inputFunction, rtSize, x - 1),
                   p1 |-> ComputePoint(m_inputFunction, rtSize, x)]]
            \o <<Shape(Call("EndDraw", S_OK, 0, 0))>>

C7_Witness ==
    /\ lastOp = "WM_PAINT"
    /\ renderResult = S_OK
    /\ rtSize.width = <<11, 8>>
    /\ Len(SelectSeq(calls, LAMBDA c : c.op = "DrawLine")) = 2

\* C9: in every reachable state a cached brush implies a cached render
\* target, and the brush was created by the render target that is cached;
\* every DrawLine call is made with a render target and a brush of that
\* render target.
C9_BrushBelongsToSurface ==
    /\ m_pGraphLineBrush # 0 =>
         m_pRenderTarget.id # 0 /\ m_pGraphLineBrush = m_pRenderTarget.id
    /\ \A i \in 1 .. Len(calls) :
         calls[i].op = "DrawLine" =>
             calls[i].rt # 0 /\ calls[i].brush = calls[i].rt

C9_Witness ==
    /\ lastOp = "WM_PAINT"
    /\ prevKind = "stale"
    /\ m_pRenderTarget.id = 2
    /\ m_pGraphLineBrush = 2
    /\ HasOp(calls, {"DrawLine"})

\* C10: WM_PAINT validates the window only when OnRender succeeded (the stale
\* case included); when OnRender failed the window stays invalid, so that a
\* paint request stays pending, and the failure code is written to the debug
\* console.
C10_ValidateOnlyOnSuccess ==
    [][lastOp' = "WM_PAINT" =>
        IF renderResult' >= 0
        THEN ~invalid' /\ debugConsole' = debugConsole
        ELSE /\ invalid'
             /\ running'
             /\ debugConsole' = Append(debugConsole, renderResult')
      ]_vars

C10_Witness ==
    /\ lastOp = "WM_PAINT"
    /\ renderResult = E_FAIL
    /\ LastCall(calls).op = "EndDraw"
    /\ invalid
    /\ debugConsole = <<E_FAIL>>

\* C8: ComputePoint inverts the y axis linearly: for every size and column x,
\* evaluate(argX) = startY gives y_px = height and evaluate(argX) = endY gives
\* y_px = 0, where argX = (x / width) * (endX - startX) + startX, so that
\* x = 0 gives argX = startX and x = width gives argX = endX; the x coordinate
\* of the point is the column.
C8_YAxisInversion ==
    cp.called =>
        /\ cp.value = m_inputFunction.startY => cp.point[2] = cp.size.height
        /\ cp.value = m_inputFunction.endY => cp.point[2] = R(0)
        /\ cp.x = 0 => cp.argX = m_inputFunction.startX
        /\ R(cp.x) = cp.size.width => cp.argX = m_inputFunction.endX
        /\ cp.point[1] = R(cp.x)

\* C8 for the sizes with width > 0
C8_YAxisInversionPositiveWidth ==
    (cp.called /\ cp.size.width # R(0)) =>
        /\ cp.value = m_inputFunction.startY => cp.point[2] = cp.size.height
        /\ cp.value = m_inputFunction.endY => cp.point[2] = R(0)
        /\ cp.x = 0 => cp.argX = m_inputFunction.startX
        /\ R(cp.x) = cp.size.width => cp.argX = m_inputFunction.endX
        /\ cp.point[1] = R(cp.x)

====
